---- MODULE Spec2Model ----
(***************************************************************************)
(* A model of maze.py: make_maze builds a fully walled grid, draws two     *)
(* distant points, carves a maze with an iterative depth-first search,     *)
(* places the start and end markers and renders the grid as text.          *)
(*                                                                         *)
(* Python lists are sequences; the Python index i is the TLA+ index i+1,   *)
(* and a negative Python index counts from the end (PyGet, PySet).         *)
(* A Python string is a sequence of one-character strings.                 *)
(***************************************************************************)
EXTENDS Integers, Sequences, FiniteSets, TLC

\* Bounds of the model.  make_maze is explored for the grids of 0..MaxW by
\* 0..MaxH with at most MaxCells cells, the point selection alone (SelSpec)
\* for 2..MaxSelW by 2..MaxSelH, and dfs alone (FairDfsSpec) for the grids
\* of 2..MaxW by 2..MaxH with at most MaxFairCells cells.
MaxW == 4
MaxH == 2
MaxCells == 8
MaxSelW == 4
MaxSelH == 4
MaxFairCells == 6

VARIABLES
    w, h,            \* the arguments of make_maze
    print_progress,  \* the argument print_progress of make_maze
    pc,              \* the position of the program
    visited,         \* the visited matrix, (h+1) rows of (w+1) flags
    vertical,        \* rows of vertical grid parts (walls and cell bodies)
    horizontal,      \* rows of horizontal grid parts (corners and ceilings)
    start, end,      \* the two points of get_distant_points
    stack,           \* the edge stack of dfs, top at the right
    frames,          \* number of progress frames printed by dfs
    maze             \* the text returned by make_maze

vars == <<w, h, print_progress, pc, visited, vertical, horizontal,
          start, end, stack, frames, maze>>

----------------------------------------------------------------------------
\* Python list access.

PyIdx(s, i) == IF i < 0 THEN Len(s) + i + 1 ELSE i + 1

PyGet(s, i) == s[PyIdx(s, i)]

PySet(s, i, v) == [s EXCEPT ![PyIdx(s, i)] = v]

\* m[r][c]
PyGet2(m, r, c) == PyGet(PyGet(m, r), c)

\* m[r][c] = v
PySet2(m, r, c, v) == PySet(m, r, PySet(PyGet(m, r), c, v))

\* [v] * n
Repeat(v, n) == [i \in 1..n |-> v]

Max(a, b) == IF a >= b THEN a ELSE b

----------------------------------------------------------------------------
\* Grid parts (lines 11-17).

CORNER == "+"
WALL == "|"
CEILING == "-"
EMPTY == " "
NEWLINE == "\n"

\* The colour codes of the terminal: term.green, term.red and term.normal are
\* escape sequences on a colour terminal and empty strings otherwise.  Nothing
\* reads START or END before line 40, so the kind of terminal is drawn there.
ESC == "ESC"
TermGreen(c) == IF c THEN <<ESC, "[", "3", "2", "m">> ELSE <<>>
TermRed(c) == IF c THEN <<ESC, "[", "3", "1", "m">> ELSE <<>>
TermNormal(c) == IF c THEN <<ESC, "(", "B", ESC, "[", "m">> ELSE <<>>

START(c) == TermGreen(c) \o <<"S">> \o TermNormal(c)
END(c) == TermRed(c) \o <<"E">> \o TermNormal(c)

\* The result of get_grid_part when the part is unknown (ValueError).
UnknownPart == <<"ValueError">>

\* get_grid_part(part, path): a three character grid part.
get_grid_part(part, path) ==
    IF part \notin {CORNER, WALL} THEN UnknownPart
    ELSE IF part = WALL
         THEN <<(IF ~path THEN WALL ELSE EMPTY), EMPTY, EMPTY>>
         ELSE LET rest == IF ~path THEN CEILING ELSE EMPTY
              IN  <<part, rest, rest>>

\* Faulty variant: the extra row built like the others, its cells unvisited.
generate_boundariesFlat(ww, hh) == Repeat(Repeat(0, ww) \o <<1>>, hh + 1)

\* generate_boundaries(w, h): unvisited cells, an extra visited column to
\* the right and an extra visited row at the bottom.
generate_boundaries(ww, hh) ==
    Repeat(Repeat(0, ww) \o <<1>>, hh) \o <<Repeat(1, ww + 1)>>

\* generate_grid(w, h): the vertical and the horizontal parts, all blocked.
generate_vertical(ww, hh) ==
    Repeat(Repeat(get_grid_part(WALL, FALSE), ww) \o <<(<<WALL>>)>>, hh) \o <<(<<>>)>>

generate_horizontal(ww, hh) ==
    Repeat(Repeat(get_grid_part(CORNER, FALSE), ww) \o <<(<<CORNER>>)>>, hh + 1)

----------------------------------------------------------------------------
\* Point selection (lines 85-114).

NoPoint == <<>>

\* Faulty variant: randint(0, w) and randint(0, h), the sentinel column and row included.
RandomPositionsToBound(ww, hh) == (0..ww) \X (0..hh)

\* The positions get_random_pos(w, h) can return: randint is inclusive.
RandomPositions(ww, hh) == (0..(ww - 1)) \X (0..(hh - 1))

\* hypot(dy, dx) squared: get_distance(x, y) is the square root of this.
get_distance_sq(p, q) ==
    (q[2] - p[2]) * (q[2] - p[2]) + (q[1] - p[1]) * (q[1] - p[1])

\* Faulty variant: the loop condition with > for <, 5*sqrt(a) + 15 > 4*sqrt(b).
BelowThresholdInverted(p, q, ww, hh) ==
    LET a == get_distance_sq(p, q)
        b == get_distance_sq(<<0, 0>>, <<ww, hh>>)
        r == 16 * b - 25 * a - 225
    IN  r < 0 \/ 22500 * a > r * r

\* Faulty variant: the threshold with + 3 for - 3, 5*sqrt(a) - 15 < 4*sqrt(b).
BelowThresholdPlus3(p, q, ww, hh) ==
    LET a == get_distance_sq(p, q)
        b == get_distance_sq(<<0, 0>>, <<ww, hh>>)
        r == 25 * a + 225 - 16 * b
    IN  r < 0 \/ 22500 * a > r * r

\* get_distance(start, end) < ((4 * get_distance([0,0], [w,h])) / 5) - 3,
\* decided exactly: with a = dist(start,end)^2 and b = dist(0,[w,h])^2 it is
\* 5*sqrt(a) + 15 < 4*sqrt(b), that is 150*sqrt(a) < 16b - 25a - 225.
\* (The floating point comparison of the code agrees with the exact one on
\* the grids of the model: the two sides are equal only when both distances
\* are whole numbers, which hypot and the division by 5 give exactly.)
BelowThreshold(p, q, ww, hh) ==
    LET a == get_distance_sq(p, q)
        b == get_distance_sq(<<0, 0>>, <<ww, hh>>)
        r == 16 * b - 25 * a - 225
    IN  r > 0 /\ 22500 * a < r * r

----------------------------------------------------------------------------
\* The depth-first search (lines 116-164).

\* The orders shuffle can leave the four neighbours in.
Perms == Permutations(1..4)

\* Faulty variant: the last neighbour is the diagonal one.
get_neighborsDiagonal(x, y, perm) ==
    LET neighbors == <<(<<x - 1, y>>), (<<x + 1, y>>), (<<x, y - 1>>), (<<x + 1, y + 1>>)>>
    IN  [i \in 1..4 |-> neighbors[perm[i]]]

\* get_neighbors(x, y), shuffled by perm.
get_neighbors(x, y, perm) ==
    LET neighbors == <<(<<x - 1, y>>), (<<x + 1, y>>), (<<x, y - 1>>), (<<x, y + 1>>)>>
    IN  [i \in 1..4 |-> neighbors[perm[i]]]

\* Line 127: the edges from start to all its neighbours.
InitialStack(s, perm) ==
    LET adj == get_neighbors(s[1], s[2], perm)
    IN  [i \in 1..4 |-> <<s[1], s[2], adj[i][1], adj[i][2]>>]

\* Faulty variant: the top edge is read and left on the stack.
PopKeep(stk) == stk

\* Faulty variant: a second pop, the edge under the top one is lost.
PopTwice(stk) == SubSeq(stk, 1, Len(stk) - 2)

\* Line 131: the stack after stack.pop().
Pop(stk) == SubSeq(stk, 1, Len(stk) - 1)

\* Faulty variant: only the first three neighbours of the shuffled list are looked at.
PushFirstThree(stk, vis, x, y, adj) ==
    LET edges == [i \in 1..3 |-> <<x, y, adj[i][1], adj[i][2]>>]
        unvisited(e) == PyGet2(vis, e[4], e[3]) = 0
    IN  stk \o SelectSeq(edges, unvisited)

\* Lines 152-154: the edges from (x, y) to its unvisited neighbours, pushed
\* in the order of the shuffle.
PushUnvisited(stk, vis, x, y, adj) ==
    LET edges == [i \in 1..4 |-> <<x, y, adj[i][1], adj[i][2]>>]
        unvisited(e) == PyGet2(vis, e[4], e[3]) = 0
    IN  stk \o SelectSeq(edges, unvisited)

\* Faulty variant: min for max, the ceiling of the upper cell is carved.
CarveHorizontalMin(hor, px, py, x, y) ==
    IF x = px
    THEN PySet2(hor, (IF py <= y THEN py ELSE y), px, get_grid_part(CORNER, TRUE))
    ELSE hor

\* Lines 136-139: the grids after carving the wall between (px,py) and (x,y).
CarveHorizontal(hor, px, py, x, y) ==
    IF x = px THEN PySet2(hor, Max(py, y), px, get_grid_part(CORNER, TRUE))
    ELSE hor

\* Faulty variant: min for max, the wall on the wrong side of the left cell.
CarveVerticalMin(ver, px, py, x, y) ==
    IF x = px THEN ver
    ELSE IF y = py
         THEN PySet2(ver, py, (IF px <= x THEN px ELSE x), get_grid_part(WALL, TRUE))
    ELSE ver

CarveVertical(ver, px, py, x, y) ==
    IF x = px THEN ver
    ELSE IF y = py THEN PySet2(ver, py, Max(px, x), get_grid_part(WALL, TRUE))
    ELSE ver

----------------------------------------------------------------------------
\* Rendering (lines 166-174).

RECURSIVE Join(_)
\* ''.join(parts)
Join(parts) ==
    IF parts = <<>> THEN <<>> ELSE Head(parts) \o Join(Tail(parts))

RECURSIVE ZipJoin(_, _, _)
\* The loop of get_maze_string over zip(horizontal, vertical).
ZipJoin(hor, ver, i) ==
    IF i > Len(hor) \/ i > Len(ver) THEN <<>>
    ELSE Join(hor[i] \o <<(<<NEWLINE>>)>> \o ver[i] \o <<(<<NEWLINE>>)>>)
         \o ZipJoin(hor, ver, i + 1)

\* get_maze_string(vertical, horizontal): maze[:-1].
get_maze_string(ver, hor) ==
    LET m == ZipJoin(hor, ver, 1)
    IN  IF m = <<>> THEN <<>> ELSE SubSeq(m, 1, Len(m) - 1)

\* Faulty variant: "{}{}{}".format(s[0], MARK, s[1:]), the cell body kept whole.
PlaceMarkerTail(ver, p, mark) ==
    LET s == PyGet2(ver, p[2], p[1])
    IN  PySet2(ver, p[2], p[1], <<PyGet(s, 0)>> \o mark \o Tail(s))

\* Lines 39-42: "{}{}{}".format(s[0], MARK, s[2]) written to the cell.
PlaceMarker(ver, p, mark) ==
    LET s == PyGet2(ver, p[2], p[1])
    IN  PySet2(ver, p[2], p[1], <<PyGet(s, 0)>> \o mark \o <<PyGet(s, 2)>>)

----------------------------------------------------------------------------
\* make_maze, step by step.

Init ==
    /\ w \in 0..MaxW
    /\ h \in 0..MaxH
    /\ w * h <= MaxCells
    /\ print_progress \in BOOLEAN
    /\ pc = "make_maze"
    /\ visited = <<>>
    /\ vertical = <<>>
    /\ horizontal = <<>>
    /\ start = NoPoint
    /\ end = NoPoint
    /\ stack = <<>>
    /\ frames = 0
    /\ maze = <<>>

\* Faulty variant: and for or.
InvalidDimensionBoth(ww, hh) == ww < 2 /\ hh < 2

\* Lines 27-28: the dimension check.
InvalidDimension(ww, hh) == ww < 2 \/ hh < 2

\* Lines 27-31.
CheckAndBuild ==
    /\ pc = "make_maze"
    /\ IF InvalidDimension(w, h)
       THEN /\ pc' = "ValueError"
            /\ UNCHANGED <<visited, vertical, horizontal>>
       ELSE /\ pc' = "get_distant_points"
            /\ visited' = generate_boundaries(w, h)
            /\ vertical' = generate_vertical(w, h)
            /\ horizontal' = generate_horizontal(w, h)
    /\ UNCHANGED <<w, h, print_progress, start, end, stack, frames, maze>>

\* Lines 94-95 and 100-101: two calls of get_random_pos.
SamplePair(p, q) ==
    /\ start' = p
    /\ end' = q
    /\ pc' = "while_distance"
    /\ UNCHANGED <<w, h, print_progress, visited, vertical, horizontal,
                   stack, frames, maze>>

\* Lines 94-95.
FirstSample ==
    /\ pc = "get_distant_points"
    /\ \E p \in RandomPositions(w, h), q \in RandomPositions(w, h) : SamplePair(p, q)

\* Lines 99-101: the pair is too close, draw again.
Resample(p, q) ==
    /\ pc = "while_distance"
    /\ BelowThreshold(start, end, w, h)
    /\ p \in RandomPositions(w, h)
    /\ q \in RandomPositions(w, h)
    /\ SamplePair(p, q)

\* Lines 99, 102: the pair is far enough, return it.
ReturnPoints ==
    /\ pc = "while_distance"
    /\ ~BelowThreshold(start, end, w, h)
    /\ pc' = "dfs"
    /\ UNCHANGED <<w, h, print_progress, visited, vertical, horizontal,
                   start, end, stack, frames, maze>>

\* Faulty variant: line 128 left out, start is not marked visited.
DfsInitNoMark ==
    /\ pc = "dfs"
    /\ stack' \in {InitialStack(start, perm) : perm \in Perms}
    /\ pc' = "while_stack"
    /\ UNCHANGED <<w, h, print_progress, visited, vertical, horizontal,
                   start, end, frames, maze>>

\* Lines 127-128.
DfsInit ==
    /\ pc = "dfs"
    /\ stack' \in {InitialStack(start, perm) : perm \in Perms}
    /\ visited' = PySet2(visited, start[2], start[1], 1)
    /\ pc' = "while_stack"
    /\ UNCHANGED <<w, h, print_progress, vertical, horizontal,
                   start, end, frames, maze>>

\* Faulty variant: the test of line 142 left out, end is expanded like any cell.
AtEndNever(x, y, endp) == FALSE

\* Line 142: [x, y] == end.
AtEnd(x, y, endp) == <<x, y>> = endp

\* Faulty variant: the loop of lines 152-154 indented under the test of line
\* 145, the neighbours are pushed only when the progress is printed.
DfsStepWithHooked(pp) ==
    /\ pc = "while_stack"
    /\ stack # <<>>
    /\ LET e == stack[Len(stack)]
           popped == Pop(stack)
           px == e[1]
           py == e[2]
           x == e[3]
           y == e[4]
       IN  IF PyGet2(visited, y, x) # 0
           THEN /\ stack' = popped
                /\ UNCHANGED <<visited, vertical, horizontal, frames>>
           ELSE LET vis == PySet2(visited, y, x, 1)
                IN  /\ visited' = vis
                    /\ horizontal' = CarveHorizontal(horizontal, px, py, x, y)
                    /\ vertical' = CarveVertical(vertical, px, py, x, y)
                    /\ IF AtEnd(x, y, end)
                       THEN /\ stack' = popped
                            /\ UNCHANGED frames
                       ELSE /\ frames' = IF pp THEN frames + 1 ELSE frames
                            /\ stack' \in IF pp
                                          THEN {PushUnvisited(popped, vis, x, y,
                                                       get_neighbors(x, y, perm)) :
                                                   perm \in Perms}
                                          ELSE {popped}
    /\ UNCHANGED <<w, h, print_progress, pc, start, end, maze>>

\* Lines 130-154: one iteration of the loop, run with print_progress = pp.
DfsStepWith(pp) ==
    /\ pc = "while_stack"
    /\ stack # <<>>
    /\ LET e == stack[Len(stack)]
           popped == Pop(stack)
           px == e[1]
           py == e[2]
           x == e[3]
           y == e[4]
       IN  IF PyGet2(visited, y, x) # 0
           THEN /\ stack' = popped
                /\ UNCHANGED <<visited, vertical, horizontal, frames>>
           ELSE LET vis == PySet2(visited, y, x, 1)
                IN  /\ visited' = vis
                    /\ horizontal' = CarveHorizontal(horizontal, px, py, x, y)
                    /\ vertical' = CarveVertical(vertical, px, py, x, y)
                    /\ IF AtEnd(x, y, end)
                       THEN /\ stack' = popped
                            /\ UNCHANGED frames
                       ELSE /\ frames' = IF pp THEN frames + 1 ELSE frames
                            /\ stack' \in {PushUnvisited(popped, vis, x, y,
                                                       get_neighbors(x, y, perm)) :
                                         perm \in Perms}
    /\ UNCHANGED <<w, h, print_progress, pc, start, end, maze>>

\* Lines 130-154: one iteration of the loop.
DfsStep == DfsStepWith(print_progress)

\* Line 130, 38-42: the stack is empty, dfs returns and the markers are placed.
PlaceMarkers ==
    /\ pc = "while_stack"
    /\ stack = <<>>
    /\ \E colour \in BOOLEAN :
         vertical' = PlaceMarker(PlaceMarker(vertical, start, START(colour)),
                                 end, END(colour))
    /\ pc' = "get_maze_string"
    /\ UNCHANGED <<w, h, print_progress, visited, horizontal, start, end,
                   stack, frames, maze>>

\* Line 45.
Render ==
    /\ pc = "get_maze_string"
    /\ maze' = get_maze_string(vertical, horizontal)
    /\ pc' = "return"
    /\ UNCHANGED <<w, h, print_progress, visited, vertical, horizontal,
                   start, end, stack, frames>>

Next ==
    \/ CheckAndBuild
    \/ FirstSample
    \/ pc = "while_distance" /\
         \E p \in RandomPositions(w, h), q \in RandomPositions(w, h) : Resample(p, q)
    \/ ReturnPoints
    \/ DfsInit
    \/ DfsStep
    \/ PlaceMarkers
    \/ Render

Spec == Init /\ [][Next]_vars

----------------------------------------------------------------------------
\* dfs(vertical, horizontal, visited, start, end, print_progress) on its own,
\* called as make_maze calls it: on fresh grids, with a pair of points that
\* get_distant_points can return.

DfsCall ==
    /\ w \in 2..MaxW
    /\ h \in 2..MaxH
    /\ w * h <= MaxFairCells
    /\ print_progress \in BOOLEAN
    /\ pc = "dfs"
    /\ visited = generate_boundaries(w, h)
    /\ vertical = generate_vertical(w, h)
    /\ horizontal = generate_horizontal(w, h)
    /\ start \in RandomPositions(w, h)
    /\ end \in RandomPositions(w, h)
    /\ ~BelowThreshold(start, end, w, h)
    /\ stack = <<>>
    /\ frames = 0
    /\ maze = <<>>

DfsNext ==
    \/ DfsInit
    \/ DfsStep

\* dfs runs on: an iteration that can be taken is taken.
FairDfsSpec == DfsCall /\ [][DfsNext]_vars /\ WF_vars(DfsNext)

----------------------------------------------------------------------------
\* get_distant_points(w, h) on its own, for larger grids.

SelInit ==
    /\ w \in 2..MaxSelW
    /\ h \in 2..MaxSelH
    /\ print_progress = FALSE
    /\ pc = "get_distant_points"
    /\ visited = <<>>
    /\ vertical = <<>>
    /\ horizontal = <<>>
    /\ start = NoPoint
    /\ end = NoPoint
    /\ stack = <<>>
    /\ frames = 0
    /\ maze = <<>>

SelNext ==
    \/ FirstSample
    \/ pc = "while_distance" /\
         \E p \in RandomPositions(w, h), q \in RandomPositions(w, h) : Resample(p, q)
    \/ ReturnPoints

SelSpec == SelInit /\ [][SelNext]_vars

\* Fair sampling: the loop runs on, and while it runs every pair is drawn
\* again and again.  Of this only the pair of opposite corners is assumed.
FairSelSpec ==
    /\ SelSpec
    /\ WF_vars(FirstSample)
    /\ WF_vars(ReturnPoints)
    /\ WF_vars(Resample(<<0, 0>>, <<w - 1, h - 1>>))

----------------------------------------------------------------------------
\* Reading the grid.

Cells == (0..(w - 1)) \X (0..(h - 1))

\* dfs has returned.
DfsDone ==
    \/ pc = "while_stack" /\ stack = <<>>
    \/ pc \in {"get_maze_string", "return"}

\* The grids exist.
Built == pc \notin {"make_maze", "ValueError"}

\* The vertical wall at index x of row y (left of cell (x, y)) is open.
VerticalOpen(x, y) == PyGet(PyGet2(vertical, y, x), 0) = EMPTY

\* The horizontal wall at index y of column x (above cell (x, y)) is open.
HorizontalOpen(x, y) == PyGet(PyGet2(horizontal, y, x), 1) = EMPTY

\* The cells c and d are adjacent and the wall between them is open.
OpenBetween(c, d) ==
    \/ c[2] = d[2] /\ d[1] = c[1] + 1 /\ VerticalOpen(d[1], d[2])
    \/ c[2] = d[2] /\ c[1] = d[1] + 1 /\ VerticalOpen(c[1], c[2])
    \/ c[1] = d[1] /\ d[2] = c[2] + 1 /\ HorizontalOpen(d[1], d[2])
    \/ c[1] = d[1] /\ c[2] = d[2] + 1 /\ HorizontalOpen(c[1], c[2])

RECURSIVE ReachFrom(_)
\* The cells reachable from the cells of S through open walls.
ReachFrom(S) ==
    LET T == S \cup {c \in Cells : \E d \in S : OpenBetween(c, d)}
    IN  IF T = S THEN S ELSE ReachFrom(T)

RECURSIVE Prune(_)
\* What is left of V after removing, again and again, the cells with at most
\* one open wall to another cell of V: empty exactly when V has no cycle.
Prune(V) ==
    LET leaves == {c \in V : Cardinality({d \in V : OpenBetween(c, d)}) <= 1}
    IN  IF leaves = {} THEN V ELSE Prune(V \ leaves)

AllVisited == \A c \in Cells : PyGet2(visited, c[2], c[1]) = 1

\* The open walls, as (kind, x, y).
OpenWalls ==
    {wl \in {"v"} \X (0..w) \X (0..(h - 1)) : VerticalOpen(wl[2], wl[3])}
    \cup {wl \in {"h"} \X (0..(w - 1)) \X (0..h) : HorizontalOpen(wl[2], wl[3])}

\* The interior walls: vertical index 1..w-1, horizontal index 1..h-1.
InteriorWalls ==
    ({"v"} \X (1..(w - 1)) \X (0..(h - 1))) \cup ({"h"} \X (0..(w - 1)) \X (1..(h - 1)))

----------------------------------------------------------------------------
\* C1: when dfs has finished every cell is visited and the open adjacencies
\* form a spanning tree: all cells are connected through open walls and the
\* open walls close no cycle (one simple path between any two cells).
C1_SpanningTree ==
    DfsDone => /\ AllVisited
               /\ \A c \in Cells : ReachFrom({c}) = Cells
               /\ Prune(Cells) = {}

\* A finished maze of six cells or more whose start and end are the same cell.
C1_Witness ==
    /\ pc = "return"
    /\ start = end
    /\ w * h >= 6
    /\ AllVisited

\* C2: when dfs has finished the number of open interior walls is w*h - 1.
C2_OpenCount ==
    DfsDone => Cardinality(OpenWalls \cap InteriorWalls) = w * h - 1

\* A finished maze of eight cells with seven open walls.
C2_Witness ==
    /\ pc = "return"
    /\ w * h = 8
    /\ Cardinality(OpenWalls) = 7

\* C3: make_maze ends in the dimension error exactly when w < 2 or h < 2;
\* then nothing has been built, sampled, carved or returned.
C3_InvalidDimension ==
    /\ pc # "make_maze" => (pc = "ValueError" <=> (w < 2 \/ h < 2))
    /\ (w < 2 \/ h < 2) =>
          /\ visited = <<>> /\ vertical = <<>> /\ horizontal = <<>>
          /\ start = NoPoint /\ end = NoPoint
          /\ stack = <<>> /\ maze = <<>>

\* make_maze(1, 2) has raised the error.
C3_Witness == pc = "ValueError" /\ w = 1 /\ h = 2

\* dist(p, q) >= (4 * dist((0,0), (ww,hh))) / 5 - 3 over the reals, with
\* a = dist(p,q)^2 and b = ww^2 + hh^2: sqrt(25a) + 15 >= sqrt(16b), that is
\* 30*sqrt(25a) >= 16b - 25a - 225.
MeetsThreshold(p, q, ww, hh) ==
    LET a == (p[1] - q[1]) * (p[1] - q[1]) + (p[2] - q[2]) * (p[2] - q[2])
        b == ww * ww + hh * hh
        d == 16 * b - 25 * a - 225
    IN  d <= 0 \/ 900 * 25 * a >= d * d

\* get_distant_points has returned.
PointsReturned == pc \notin {"make_maze", "ValueError", "get_distant_points", "while_distance"}

\* C4: the returned pair is at least (4 * dist((0,0),(w,h))) / 5 - 3 apart.
C4_Distance == PointsReturned => MeetsThreshold(start, end, w, h)

\* A pair returned for a 4 x 4 grid, whose threshold exceeds the distance
\* of neighbouring cells.
C4_Witness ==
    /\ PointsReturned
    /\ w = 4 /\ h = 4
    /\ ~MeetsThreshold(<<0, 0>>, <<1, 1>>, w, h)
    /\ get_distance_sq(start, end) = 4

\* C5: get_distant_points never returns start = end.
C5_Distinct == PointsReturned => start # end

\* C6: both returned positions are grid cells, 0 <= x <= w-1, 0 <= y <= h-1.
C6_InGrid ==
    PointsReturned =>
        \A p \in {start, end} : 0 <= p[1] /\ p[1] <= w - 1 /\ 0 <= p[2] /\ p[2] <= h - 1

\* The far corner cell returned as end.
C6_Witness == PointsReturned /\ end = <<w - 1, h - 1>> /\ start = <<0, 0>> /\ w = 4

\* C7: the outer boundary walls are never opened; every open wall is interior.
C7_Boundary ==
    Built =>
        /\ \A y \in 0..(h - 1) : ~VerticalOpen(0, y) /\ ~VerticalOpen(w, y)
        /\ \A x \in 0..(w - 1) : ~HorizontalOpen(x, 0) /\ ~HorizontalOpen(x, h)
        /\ \A y \in 0..(h - 1), x \in 0..w : VerticalOpen(x, y) => x \in 1..(w - 1)
        /\ \A y \in 0..h, x \in 0..(w - 1) : HorizontalOpen(x, y) => y \in 1..(h - 1)

\* A finished maze whose start is a corner cell: dfs has popped the edges
\* that leave the grid there.
C7_Witness ==
    /\ pc = "return"
    /\ start = <<0, 0>>
    /\ Cardinality(OpenWalls) = w * h - 1
    /\ w = 4

RECURSIVE StripColour(_)
\* The text without its colour codes: ESC ( B and ESC [ ... m are removed.
StripColour(t) ==
    IF t = <<>> THEN <<>>
    ELSE IF Head(t) # ESC THEN <<Head(t)>> \o StripColour(Tail(t))
    ELSE IF Len(t) >= 3 /\ t[2] = "(" THEN StripColour(SubSeq(t, 4, Len(t)))
    ELSE LET m == CHOOSE i \in 1..Len(t) : t[i] = "m" /\ \A j \in 1..(i - 1) : t[j] # "m"
         IN  StripColour(SubSeq(t, m + 1, Len(t)))

RECURSIVE Lines(_)
\* The lines of a text, each ended by a line break.
Lines(t) ==
    IF t = <<>> THEN <<>>
    ELSE IF \A i \in 1..Len(t) : t[i] # NEWLINE THEN <<t>>
    ELSE LET n == CHOOSE i \in 1..Len(t) : t[i] = NEWLINE /\ \A j \in 1..(i - 1) : t[j] # NEWLINE
         IN  <<SubSeq(t, 1, n - 1)>> \o Lines(SubSeq(t, n + 1, Len(t)))

\* The text has 2h+1 lines of 3w+1 characters, separator lines (starting
\* with a corner) and cell-row lines (starting with a wall) in turn.
MazeShape(t) ==
    LET ls == Lines(StripColour(t))
    IN  /\ Len(ls) = 2 * h + 1
        /\ \A i \in 1..Len(ls) :
              /\ Len(ls[i]) = 3 * w + 1
              /\ ls[i][1] = (IF i % 2 = 1 THEN CORNER ELSE WALL)
              /\ ls[i][Len(ls[i])] = (IF i % 2 = 1 THEN CORNER ELSE WALL)

\* C8: the text returned by make_maze, and the text of the grids once dfs
\* has carved them (before and after the markers are placed), has h+1
\* separator lines interleaved with h cell-row lines, each 3w+1 characters
\* wide without colour codes.
C8_MazeShape ==
    /\ pc = "return" => MazeShape(maze)
    /\ DfsDone => MazeShape(get_maze_string(vertical, horizontal))

\* A returned maze with colour codes around its two markers.
C8_Witness ==
    /\ pc = "return"
    /\ start # end
    /\ Len(maze) > Len(StripColour(maze))
    /\ w = 3 /\ h = 2

\* C9: some pair of cells meets the threshold, and under fair sampling the
\* retry loop of get_distant_points ends.
C9_SelectionEnds ==
    /\ [](\E p \in Cells, q \in Cells : MeetsThreshold(p, q, w, h))
    /\ <>PointsReturned

\* The loop has drawn a pair of a 4 x 4 grid that it rejects.
C9_Witness ==
    /\ pc = "while_distance"
    /\ w = 4 /\ h = 4
    /\ BelowThreshold(start, end, w, h)
    /\ start # end

\* The cells not yet visited.
Unvisited == {c \in Cells : PyGet2(visited, c[2], c[1]) = 0}

\* C10: the loop of dfs ends: once dfs is entered the stack becomes empty,
\* and every iteration decreases 4 * (unvisited cells) + (stack length).
C10_DfsEnds ==
    /\ (pc = "dfs") ~> DfsDone
    /\ [][pc = "while_stack" /\ pc' = "while_stack" =>
             4 * Cardinality(Unvisited') + Len(stack')
               < 4 * Cardinality(Unvisited) + Len(stack)]_vars

\* The loop is running with stale edges on the stack: the top edge leads to
\* a visited cell and all cells are visited.
C10_Witness ==
    /\ pc = "while_stack"
    /\ Len(stack) >= 3
    /\ AllVisited
    /\ w * h = 6

\* The cells with an open wall to the cell c.
OpenNeighbours(c) == {d \in Cells : OpenBetween(c, d)}

\* dfs is running or has returned.
InDfs == pc \in {"while_stack", "get_maze_string", "return"}

\* C11: when end is not start, no edge leaving end is ever on the stack, end
\* has exactly one open wall from the moment it is visited (none before),
\* and reaching end does not stop the traversal: while cells are unvisited
\* the loop is still running with edges to process.
C11_EndDeadEnd ==
    (InDfs /\ start # end) =>
        /\ \A i \in 1..Len(stack) : <<stack[i][1], stack[i][2]>> # end
        /\ Cardinality(OpenNeighbours(end)) =
              (IF PyGet2(visited, end[2], end[1]) = 1 THEN 1 ELSE 0)
        /\ (PyGet2(visited, end[2], end[1]) = 1 /\ ~AllVisited) =>
              (pc = "while_stack" /\ stack # <<>>)

\* The loop has reached an end cell with three neighbours in the grid, and
\* goes on: cells are left to visit.
C11_Witness ==
    /\ pc = "while_stack"
    /\ start # end
    /\ end = <<1, 0>> /\ w >= 3
    /\ PyGet2(visited, end[2], end[1]) = 1
    /\ ~AllVisited
    /\ stack # <<>>

\* The position (x, y) is a cell of the grid.
InGrid(x, y) == 0 <= x /\ x < w /\ 0 <= y /\ y < h

\* C12: the sentinel flags (column w of every row, every flag of row h) stay
\* visited; every edge on the stack leaves a grid cell, and an edge whose
\* target is outside the grid (x or y equal to -1, w or h) reads a visited
\* flag, so it is discarded; the visited matrix and the grids keep their
\* shape, the parts of column w and of row h of the vertical grid untouched.
C12_Sentinels ==
    [](Built =>
        /\ Len(visited) = h + 1 /\ \A r \in 1..(h + 1) : Len(visited[r]) = w + 1
        /\ \A y \in 0..(h - 1) : PyGet2(visited, y, w) = 1
        /\ \A x \in 0..w : PyGet2(visited, h, x) = 1
        /\ \A i \in 1..Len(stack) :
              /\ InGrid(stack[i][1], stack[i][2])
              /\ stack[i][3] \in -1..w /\ stack[i][4] \in -1..h
              /\ ~InGrid(stack[i][3], stack[i][4]) =>
                    PyGet2(visited, stack[i][4], stack[i][3]) = 1
        /\ PyGet(vertical, h) = <<>>
        /\ \A y \in 0..(h - 1) : PyGet2(vertical, y, w) = <<WALL>>)

\* The loop is about to pop an edge that leaves the grid to the left or
\* upwards: its target index is -1.
C12_Witness ==
    /\ pc = "while_stack"
    /\ stack # <<>>
    /\ (stack[Len(stack)][3] = -1 \/ stack[Len(stack)][4] = -1)
    /\ Cardinality(Unvisited) < w * h - 1

\* The loop is about to pop the edge `top`.
Popping == pc = "while_stack" /\ stack # <<>>

\* The edge on top of the stack: (prev_x, prev_y, x, y).
top == stack[Len(stack)]

\* The target of the edge on top of the stack has its visited flag clear.
TargetUnvisited == PyGet2(visited, top[4], top[3]) = 0

\* C13: an iteration that pops an edge (px, py, x, y) with an unvisited
\* target sets the visited flag of (x, y) and no other, and opens exactly one
\* wall, closed until then: the vertical wall at index max(px, x) of row y
\* when py = y, the horizontal wall at index max(py, y) of column x when
\* px = x; every other part of the two grids keeps its value.
C13_CarveFrame ==
    [][(Popping /\ TargetUnvisited) =>
        LET px == top[1]
            py == top[2]
            x == top[3]
            y == top[4]
        IN  /\ \A r \in 0..h : \A c \in 0..w :
                  PyGet2(visited', r, c) =
                      (IF <<c, r>> = <<x, y>> THEN 1 ELSE PyGet2(visited, r, c))
            /\ (px = x) # (py = y)
            /\ py = y =>
                  /\ ~VerticalOpen(Max(px, x), y)
                  /\ PyGet(PyGet2(vertical', y, Max(px, x)), 0) = EMPTY
                  /\ \A r \in 0..(h - 1) : \A c \in 0..w :
                        <<c, r>> # <<Max(px, x), y>> =>
                            PyGet2(vertical', r, c) = PyGet2(vertical, r, c)
                  /\ horizontal' = horizontal
            /\ px = x =>
                  /\ ~HorizontalOpen(x, Max(py, y))
                  /\ PyGet(PyGet2(horizontal', Max(py, y), x), 1) = EMPTY
                  /\ \A r \in 0..h : \A c \in 0..(w - 1) :
                        <<c, r>> # <<x, Max(py, y)>> =>
                            PyGet2(horizontal', r, c) = PyGet2(horizontal, r, c)
                  /\ vertical' = vertical
    ]_vars

\* Iterations have carved a vertical and a horizontal wall, and the edge on
\* top of the stack leads to one more unvisited cell.
C13_Witness ==
    /\ Popping
    /\ TargetUnvisited
    /\ \E wl \in OpenWalls : wl[1] = "v"
    /\ \E wl \in OpenWalls : wl[1] = "h"

\* The cell c has an open wall on one of its four sides.
Touches(wl, c) ==
    \/ wl[1] = "v" /\ wl[3] = c[2] /\ wl[2] \in {c[1], c[1] + 1}
    \/ wl[1] = "h" /\ wl[2] = c[1] /\ wl[3] \in {c[2], c[2] + 1}

\* C14: an iteration that pops an edge whose target is already visited
\* opens no wall, changes no visited flag and no frame count, pushes nothing
\* and leaves the stack one edge shorter. So a wall is opened only by the
\* iteration that first visits a cell, on a side of that cell: each cell
\* other than start is carved into exactly once.
C14_DiscardFrame ==
    [][/\ (Popping /\ ~TargetUnvisited) =>
            /\ visited' = visited
            /\ vertical' = vertical
            /\ horizontal' = horizontal
            /\ frames' = frames
            /\ stack' = SubSeq(stack, 1, Len(stack) - 1)
       /\ (Built /\ Built') =>
            \A wl \in OpenWalls' \ OpenWalls :
                /\ <<top[3], top[4]>> \in Unvisited \ Unvisited'
                /\ Touches(wl, <<top[3], top[4]>>)
                /\ OpenWalls' \ OpenWalls = {wl}
    ]_vars

\* After several carving iterations, the edge on top of the stack leads
\* to a cell of the grid that another edge has reached before.
C14_Witness ==
    /\ Popping
    /\ InGrid(top[3], top[4])
    /\ ~TargetUnvisited
    /\ Cardinality(OpenWalls) >= 2

\* C15: with print_progress true, every cell newly visited and carved in the
\* loop is followed by one progress frame before the traversal continues:
\* in every state of dfs the number of frames emitted so far equals the
\* number of cells carved into, which is the number of open walls.
C15_FramePerCell ==
    (InDfs /\ print_progress) => frames = Cardinality(OpenWalls)

\* C16: the progress hook does not influence carving. Two runs of dfs on
\* the same w, h, start and end begin with the same stack, visited flags
\* and walls; whatever iteration one of them takes, the run with the other
\* value of print_progress can take, from the same stack, visited flags and
\* walls and with the same shuffle outcome, an iteration that ends with the
\* same stack, visited flags and walls. By induction the two runs pass
\* through the same sequence of these states and end with identical walls.
C16_HookNoInfluence ==
    [][DfsStep =>
        \E s2 \in {stack'} : \E v2 \in {visited'} :
        \E ve2 \in {vertical'} : \E ho2 \in {horizontal'} :
            ENABLED (/\ DfsStepWith(~print_progress)
                     /\ stack' = s2
                     /\ visited' = v2
                     /\ vertical' = ve2
                     /\ horizontal' = ho2)
    ]_vars

\* A run that prints its progress has printed frames and has pushed the
\* neighbours of several cells; its next iteration expands one more cell.
C16_Witness ==
    /\ Popping
    /\ TargetUnvisited
    /\ print_progress
    /\ frames >= 2
    /\ <<top[3], top[4]>> # end

\* The number of places of the text t that hold the character ch.
Count(t, ch) == Cardinality({i \in 1..Len(t) : t[i] = ch})

\* The character of the rendered text, colour codes aside, at offset k of the
\* cell-row line of the cell c: 0 is its left wall, 1 its middle.
CellChar(t, c, k) == Lines(StripColour(t))[2 * c[2] + 2][3 * c[1] + 1 + k]

\* C17: the text make_maze returns holds exactly one S, in the middle of the
\* start cell, and exactly one E, in the middle of the end cell, for every
\* returned pair of points; the left walls of the two cells are drawn as
\* dfs carved them: the open walls are still those of the spanning tree.
C17_Markers ==
    pc = "return" =>
        /\ Count(StripColour(maze), "S") = 1
        /\ Count(StripColour(maze), "E") = 1
        /\ CellChar(maze, start, 1) = "S"
        /\ CellChar(maze, end, 1) = "E"
        /\ CellChar(maze, start, 0) =
              (IF VerticalOpen(start[1], start[2]) THEN EMPTY ELSE WALL)
        /\ CellChar(maze, end, 0) =
              (IF VerticalOpen(end[1], end[2]) THEN EMPTY ELSE WALL)
        /\ Cardinality(OpenWalls) = w * h - 1
        /\ ReachFrom({start}) = Cells

\* The two positions an open wall lies between.
Sides(wl) ==
    IF wl[1] = "v" THEN {<<wl[2] - 1, wl[3]>>, <<wl[2], wl[3]>>}
    ELSE {<<wl[2], wl[3] - 1>>, <<wl[2], wl[3]>>}

\* The grid cells whose visited flag is set.
VisitedCells == Cells \ Unvisited

\* The open walls form a tree that spans exactly the visited cells.
PartialTree ==
    /\ Cardinality(OpenWalls) = Cardinality(VisitedCells) - 1
    /\ ReachFrom({start}) = VisitedCells
    /\ \A wl \in OpenWalls : Sides(wl) \subseteq VisitedCells

\* C18: in every state of dfs, from line 128 on, the open walls form a tree
\* spanning exactly the visited cells: there is one open wall less than
\* visited cells, every visited cell is connected to start through open
\* walls and no open wall has an unvisited cell (or a position outside the
\* grid) on one of its sides; no step clears a visited flag and no step
\* closes an open wall.
C18_PartialTree ==
    /\ [](InDfs => PartialTree)
    /\ [][(Built /\ Built') =>
            /\ \A r \in 0..h : \A c \in 0..w :
                  PyGet2(visited, r, c) = 1 => PyGet2(visited', r, c) = 1
            /\ OpenWalls \subseteq OpenWalls'
         ]_vars

\* In the middle of a traversal: three cells or more are visited, with walls
\* open between them, and two or more are still unvisited.
C18_Witness ==
    /\ Popping
    /\ Cardinality(VisitedCells) >= 3
    /\ Cardinality(Unvisited) >= 2
    /\ Cardinality(OpenWalls) >= 2

====
